---- MODULE Spec2Model ----
(***************************************************************************)
(* Model of tdwii-plus-examples/handlers.py: the in-memory registry of UPS *)
(* work items (_ups_instances), the query matcher                          *)
(* (_ups_is_match_for_query), the C-FIND handler (handle_find) and the      *)
(* C-GET / C-MOVE handlers (handle_get, handle_move), the C-STORE handler  *)
(* (handle_store) and the N-ACTION handler (handle_naction).               *)
(*                                                                         *)
(* A handler is a Python generator: one action of the model runs it from   *)
(* one suspension point (a yield) to the next.  A Python exception is the  *)
(* name of its class, carried as a value.                                  *)
(***************************************************************************)
EXTENDS Integers, Sequences, FiniteSets, TLC

VARIABLES
    probe,          \* the last direct call of the matcher: query, item, outcome
    dir,            \* the UPS_*.dcm files of instance_dir, in glob order
    ups_instances,  \* the module-level dict _ups_instances, in insertion order
    scanCount,      \* number of p.glob("UPS_*.dcm") calls made so far
    readCount,      \* number of dcmread calls made by _reload_ups_instances
    calls,          \* number of handler invocations started so far
    regop,          \* the two latest explicit registry operations and their effect
    h,              \* per association: the running handler (generator) and its stream
    svc             \* the storage directory, the catalogue rows, and the last
                    \* call of handle_store or handle_naction with its result

vars == <<probe, dir, ups_instances, scanCount, readCount, calls, regop, h, svc>>

-----------------------------------------------------------------------------
(* Bounds of the model *)

MaxSeqLen == 2      \* longest ScheduledStationNameCodeSequence
MaxFiles == 2       \* most UPS_*.dcm files in instance_dir
MaxCalls == 2       \* most handler invocations in one behaviour
MaxMatches == 3     \* longest match list returned by search()

-----------------------------------------------------------------------------
(* Datasets *)

\* Python exceptions the modelled code can raise.
AttributeError == "AttributeError"
UnboundLocalError == "UnboundLocalError"
RuntimeError == "RuntimeError"
KeyError == "KeyError"
Exceptions == {AttributeError, UnboundLocalError, RuntimeError}

KwSOPInstanceUID == "SOPInstanceUID"
KwStationSeq == "ScheduledStationNameCodeSequence"
KwStepState == "ProcedureStepState"

CodeValues == {"", "LINAC1", "LINAC2"}
StepStates == {"", "SCHEDULED", "COMPLETED"}
UIDs == {"1.2.3.1", "1.2.3.2"}

CodeSeqs == UNION {[1..n -> CodeValues] : n \in 0..MaxSeqLen}

\* A pydicom Dataset, reduced to the three attributes handlers.py reads.
\* attrs is the set of attributes the dataset holds; reading another one
\* raises AttributeError.  An attribute that is not held has the value "" / <<>>.
Ds(attrs, uid, seq, state) ==
    [attrs |-> attrs, SOPInstanceUID |-> uid,
     ScheduledStationNameCodeSequence |-> seq, ProcedureStepState |-> state]

\* Python's None where a dataset is expected.
None == Ds({}, "None", <<>>, "")

\* A local variable that no assignment has bound yet.
Unbound == Ds({}, "<unbound>", <<>>, "")

HasUid(ds) == KwSOPInstanceUID \in ds.attrs

\* Every dataset over the given attributes and value sets.
DatasetsOver(attrSets, uids, seqs, states) ==
    {Ds(a, IF KwSOPInstanceUID \in a THEN u ELSE "",
           IF KwStationSeq \in a THEN s ELSE <<>>,
           IF KwStepState \in a THEN st ELSE "") :
        a \in attrSets, u \in uids, s \in seqs, st \in states}

-----------------------------------------------------------------------------
(* The query matcher: handlers.py lines 35-97 *)

\* The loop of get_machine_name_from_ups: machine_name is assigned once per
\* entry of the sequence, so it ends as the CodeValue of the last entry, and
\* is never bound when the sequence has no entry.
RECURSIVE machine_name_loop(_, _, _)
machine_name_loop(seq, item_index, machine_name) ==
    IF item_index > Len(seq) THEN machine_name
    ELSE machine_name_loop(seq, item_index + 1, seq[item_index])

get_machine_name_from_ups(query) ==
    IF KwStationSeq \notin query.attrs THEN AttributeError
    ELSE machine_name_loop(query.ScheduledStationNameCodeSequence, 1, UnboundLocalError)

get_procedure_step_state_from_ups(query) ==
    IF KwStepState \notin query.attrs THEN AttributeError
    ELSE query.ProcedureStepState

\* "True", "False" or the exception raised.
machine_name_matches(query, ups) ==
    LET requested_machine_name == get_machine_name_from_ups(query)
        scheduled_machine_name == get_machine_name_from_ups(ups)
    IN  IF requested_machine_name \in Exceptions THEN requested_machine_name
        ELSE IF scheduled_machine_name \in Exceptions THEN scheduled_machine_name
        ELSE IF requested_machine_name # ""
                /\ scheduled_machine_name # requested_machine_name THEN "False"
        ELSE "True"

procedure_step_state_matches(query, ups) ==
    LET requested_step_status == get_procedure_step_state_from_ups(query)
        ups_step_status == get_procedure_step_state_from_ups(ups)
    IN  IF requested_step_status \in Exceptions THEN requested_step_status
        ELSE IF ups_step_status \in Exceptions THEN ups_step_status
        ELSE IF requested_step_status # ""
                /\ requested_step_status # ups_step_status THEN "False"
        ELSE "True"

_ups_is_match_for_query(query, ups) ==
    LET m == machine_name_matches(query, ups)
    IN  IF m # "True" THEN m
        ELSE procedure_step_state_matches(query, ups)

-----------------------------------------------------------------------------
(* The registry: handlers.py lines 20-32.  A Python dict keeps its entries *)
(* in insertion order; its keys here are the SOPInstanceUID of the values. *)

dict_keys(d) == {d[i].SOPInstanceUID : i \in 1..Len(d)}

\* d[key] = ds: a present key keeps its place and gets the new value.
dict_setitem(d, key, ds) ==
    IF key \in dict_keys(d)
    THEN [i \in 1..Len(d) |-> IF d[i].SOPInstanceUID = key THEN ds ELSE d[i]]
    ELSE Append(d, ds)

\* del d[key], for a key that is present.
dict_delitem(d, key) ==
    LET keep == {i \in 1..Len(d) : d[i].SOPInstanceUID # key}
        RECURSIVE pick(_)
        pick(i) == IF i > Len(d) THEN <<>>
                   ELSE IF i \in keep THEN <<d[i]>> \o pick(i + 1) ELSE pick(i + 1)
    IN  pick(1)

\* The result of a call on the registry: the dict after it and the exception
\* it raised ("" when it returned).
Result(d, exc) == [dict |-> d, exc |-> exc]

add_ups_instance_inverted(d, ds) ==
    IF KwSOPInstanceUID \notin ds.attrs THEN Result(d, AttributeError)
    ELSE IF ds.SOPInstanceUID \in dict_keys(d)
         THEN Result(dict_setitem(d, ds.SOPInstanceUID, ds), "")
         ELSE Result(d, "")

add_ups_instance_unguarded(d, ds) ==
    IF KwSOPInstanceUID \notin ds.attrs THEN Result(d, AttributeError)
    ELSE Result(dict_setitem(d, ds.SOPInstanceUID, ds), "")

_add_ups_instance(d, ds) ==
    IF KwSOPInstanceUID \notin ds.attrs THEN Result(d, AttributeError)
    ELSE IF ds.SOPInstanceUID \notin dict_keys(d)
         THEN Result(dict_setitem(d, ds.SOPInstanceUID, ds), "")
         ELSE Result(d, "")

_remove_ups_instance(d, ds) ==
    IF KwSOPInstanceUID \notin ds.attrs THEN Result(d, AttributeError)
    ELSE IF ds.SOPInstanceUID \in dict_keys(d)
         THEN Result(dict_delitem(d, ds.SOPInstanceUID), "")
         ELSE Result(d, "")

-----------------------------------------------------------------------------
(* The lazy load: handlers.py lines 218-238 *)

\* A file of instance_dir named UPS_*.dcm: dcmread either raises on it or
\* returns its dataset.
File(readable, ds) == [readable |-> readable, ds |-> ds]

\* The try block of lines 228-234: the loop over the files is inside the try,
\* so the first dcmread that raises ends the loop.  reads counts the dcmread
\* calls made.
RECURSIVE dcmread_loop(_, _, _)
dcmread_loop(list_of_dcm_ups, i, ups_instance_list) ==
    IF i > Len(list_of_dcm_ups)
    THEN [ups_instance_list |-> ups_instance_list, reads |-> i - 1]
    ELSE IF ~list_of_dcm_ups[i].readable
         THEN [ups_instance_list |-> ups_instance_list, reads |-> i]
         ELSE dcmread_loop(list_of_dcm_ups, i + 1,
                           Append(ups_instance_list, list_of_dcm_ups[i].ds))

\* Lines 222-234: what _reload_ups_instances collects before it inserts.
reload_scan(d, files) ==
    IF Len(d) = 0
    THEN LET r == dcmread_loop(files, 1, <<>>)
         IN  [ups_instance_list |-> r.ups_instance_list, globs |-> 1, reads |-> r.reads]
    ELSE [ups_instance_list |-> <<>>, globs |-> 0, reads |-> 0]

-----------------------------------------------------------------------------
(* Responses and handler state *)

\* DIMSE status codes yielded by the handlers.
Success == 0                 \* 0x0000
PendingMatch == 65280        \* 0xFF00
Canceled == 65024            \* 0xFE00
FailureIdentifier == 43264   \* 0xA900
FindUnableToProcess == 49952 \* 0xC320
GetUnableToProcess == 50208  \* 0xC420
GetReadFailure == 50209      \* 0xC421
MoveUnableToProcess == 50464 \* 0xC520
MoveReadFailure == 50465     \* 0xC521
CannotUnderstand == 49680    \* 0xC210
OutOfResources == 42752      \* 0xA700

\* One element of a handler's response stream.
Response(kind, status, ds, addr, contexts) ==
    [kind |-> kind, status |-> status, ds |-> ds, addr |-> addr, contexts |-> contexts]

\* yield status, dataset
Rsp(status, ds) == Response("status", status, ds, "", <<>>)

\* yield len(matches)
CountRsp(n) == Response("count", n, None, "", <<>>)

\* yield addr, port, {"contexts": contexts}
DestRsp(addr, port, contexts) == Response("dest", port, None, addr, contexts)

\* yield None, None
NoRouteRsp == Response("noroute", 0, None, "", <<>>)

UPSPull == "UnifiedProcedureStepPull"
PatientRootFind == "PatientRootQueryRetrieveInformationModelFind"
Models == {UPSPull, PatientRootFind}

Assocs == {"assoc1", "assoc2"}

\* A handler that is not running.  pc is the generator's position:
\*   idle     no handler was invoked on the association
\*   reload   handle_find is invoked, _reload_ups_instances has not started
\*   adding   _reload_ups_instances is in its loop of line 236
\*   search   handle_get or handle_move is invoked and has not run yet
\*   dest     handle_move is suspended at the yield of the destination
\*   counted  suspended at the yield of the number of sub-operations
\*   failed   suspended at the yield of a read failure, inside the loop
\*   yielded  suspended at a yield inside a loop
\*   final    suspended at a yield that a return (or the end) follows
\*   done     the generator has returned
\*   raised   an exception has left the generator
\* search_outcome is what the catalogue's search() does with the request's
\* identifier; searches counts the calls of search() the handler has made;
\* snapshot is the dict as it was when the iteration of _search_ups began.
Idle ==
    [pc |-> "idle", op |-> "none", model |-> "", query |-> None,
     ups_instance_list |-> <<>>, pos |-> 0, it_len |-> 0,
     out |-> <<>>, exc |-> "", is_cancelled |-> FALSE, cancelAt |-> -1,
     move_destination |-> "", matches |-> <<>>, idx |-> 0, ds |-> Unbound,
     session |-> "none", rolled_back |-> FALSE, sawCancel |-> -1,
     search_outcome |-> "ok", searches |-> 0, snapshot |-> <<>>]

Running(a) ==
    h[a].pc \in {"reload", "adding", "search", "dest", "counted", "failed",
                 "yielded", "final"}

\* The registry operation recorded last: a call of _add_ups_instance ("add")
\* or _remove_ups_instance ("remove") from outside the handlers, or an insert
\* made by the lazy load ("load").
\*   again    the operation before it was the same call on the same dataset
\*   present  the dataset's SOPInstanceUID was a key of the dict before the call
\*   changed  the call changed the dict
RegOp(op, ds, again, present, changed, exc) ==
    [op |-> op, ds |-> ds, again |-> again, present |-> present,
     changed |-> changed, exc |-> exc]

-----------------------------------------------------------------------------
(* Inputs *)

ItemDs(uid, state) ==
    Ds({KwSOPInstanceUID, KwStationSeq, KwStepState}, uid, <<"LINAC1">>, state)

\* A file that dcmread (force=True) reads although it holds no SOPInstanceUID.
NoUidDs == Ds({KwStationSeq, KwStepState}, "", <<"LINAC1">>, "SCHEDULED")

RegistryDatasets ==
    {ItemDs(u, s) : u \in UIDs, s \in {"SCHEDULED", "COMPLETED"}} \cup {NoUidDs}

Unreadable == File(FALSE, None)

Files == {File(TRUE, ds) : ds \in RegistryDatasets} \cup {Unreadable}

Directories == UNION {[1..n -> Files] : n \in 0..MaxFiles}

QueryDs(seq, state) == Ds({KwStationSeq, KwStepState}, "", seq, state)

\* C-FIND identifiers: one entry with an empty CodeValue; no entry at all
\* (the zero-length sequence of universal matching); a machine and a state.
FindQueries ==
    {QueryDs(<<"">>, ""), QueryDs(<<>>, ""),
     QueryDs(<<"">>, "SCHEDULED"), QueryDs(<<"LINAC1">>, "COMPLETED")}

-----------------------------------------------------------------------------
(* The work-item search: handlers.py lines 100-104 *)

\* One next() of the generator _search_ups.  It iterates the live values of
\* the dict from position pos; a dict iterator raises RuntimeError when the
\* dict's size is no longer the size it_len it had when the iteration began.
RECURSIVE _search_ups(_, _, _, _)
_search_ups(d, query_as_ds, pos, it_len) ==
    IF Len(d) # it_len
    THEN [outcome |-> "raise", exc |-> RuntimeError, pos |-> pos, ups |-> None]
    ELSE IF pos >= Len(d)
    THEN [outcome |-> "stop", exc |-> "", pos |-> pos, ups |-> None]
    ELSE LET ups == d[pos + 1]
             m == _ups_is_match_for_query(query_as_ds, ups)
         IN  IF m \in Exceptions
             THEN [outcome |-> "raise", exc |-> m, pos |-> pos + 1, ups |-> None]
             ELSE IF m = "True"
             THEN [outcome |-> "yield", exc |-> "", pos |-> pos + 1, ups |-> ups]
             ELSE _search_ups(d, query_as_ds, pos + 1, it_len)

\* sqlalchemy's create_engine: it raises ArgumentError for a db_path of None.
create_engine(db_path) == IF db_path = "None" THEN "ArgumentError" ELSE "engine"

-----------------------------------------------------------------------------
(* handle_find: handlers.py lines 140-215 *)

\* The handler is invoked (lines 160-166); db_path is set to None.
FindStart(a, model, query, search_outcome) ==
    /\ ~Running(a)
    /\ calls < MaxCalls
    /\ calls' = calls + 1
    /\ h' = [h EXCEPT ![a] = [Idle EXCEPT !.pc = "reload", !.op = "find",
                                          !.model = model, !.query = query,
                                          !.search_outcome = search_outcome]]
    /\ UNCHANGED <<svc, probe, dir, ups_instances, scanCount, readCount, regop>>

\* _reload_ups_instances, lines 222-234: the scan of an empty registry.
ReloadScan(a) ==
    /\ h[a].pc = "reload"
    /\ LET r == reload_scan(ups_instances, dir)
       IN  /\ scanCount' = scanCount + r.globs
           /\ readCount' = readCount + r.reads
           /\ h' = [h EXCEPT ![a].pc = "adding",
                             ![a].ups_instance_list = r.ups_instance_list]
    /\ UNCHANGED <<svc, probe, dir, ups_instances, calls, regop>>

\* _reload_ups_instances, lines 236-237: one pass of the inserting loop.  An
\* AttributeError of _add_ups_instance leaves handle_find.
ReloadAdd(a) ==
    /\ h[a].pc = "adding"
    /\ h[a].ups_instance_list # <<>>
    /\ LET ups == Head(h[a].ups_instance_list)
           r == _add_ups_instance(ups_instances, ups)
       IN  /\ ups_instances' = r.dict
           /\ regop' = RegOp("load", ups, FALSE, ups.SOPInstanceUID \in dict_keys(ups_instances),
                             r.dict # ups_instances, r.exc)
           /\ h' = IF r.exc # ""
                   THEN [h EXCEPT ![a].pc = "raised", ![a].exc = r.exc]
                   ELSE [h EXCEPT ![a].ups_instance_list = Tail(@)]
    /\ UNCHANGED <<svc, probe, dir, scanCount, readCount, calls>>

\* The handler after one next() of _search_ups at position pos: lines 174-176.
FindAdvance(a, pos, it_len) ==
    LET r == _search_ups(ups_instances, h[a].query, pos, it_len)
    IN  CASE r.outcome = "yield" ->
               [h EXCEPT ![a].pc = "yielded", ![a].pos = r.pos, ![a].it_len = it_len,
                         ![a].out = Append(@, Rsp(PendingMatch, r.ups))]
          [] r.outcome = "stop" ->
               [h EXCEPT ![a].pc = "final", ![a].pos = r.pos, ![a].it_len = it_len,
                         ![a].out = Append(@, Rsp(Success, None))]
          [] OTHER ->
               [h EXCEPT ![a].pc = "raised", ![a].pos = r.pos, ![a].it_len = it_len,
                         ![a].exc = r.exc]

\* Lines 169-178, up to the first yield: the work-item model starts the
\* iteration of the registry; any other model calls create_engine(db_path)
\* with the db_path of line 166, which raises.
FindBranch(a) ==
    /\ h[a].pc = "adding"
    /\ h[a].op = "find"
    /\ h[a].ups_instance_list = <<>>
    /\ h' = IF h[a].model = UPSPull
            THEN [FindAdvance(a, 0, Len(ups_instances)) EXCEPT ![a].snapshot = ups_instances]
            ELSE [h EXCEPT ![a].pc = "raised", ![a].exc = create_engine("None")]
    /\ UNCHANGED <<svc, probe, dir, ups_instances, scanCount, readCount, calls, regop>>

\* The consumer asks for the next response: lines 174-176 from a yield on.
FindResume(a) ==
    /\ h[a].pc = "yielded"
    /\ h[a].op = "find"
    /\ h' = FindAdvance(a, h[a].pos, h[a].it_len)
    /\ UNCHANGED <<svc, probe, dir, ups_instances, scanCount, readCount, calls, regop>>

\* The consumer asks once more after the last yield: the generator returns,
\* through the finally clause that closes the session when the yield was
\* inside the try statement.
Return(a) ==
    /\ h[a].pc = "final"
    /\ h' = [h EXCEPT ![a].pc = "done",
                      ![a].session = IF @ = "open" THEN "closed" ELSE @]
    /\ UNCHANGED <<svc, probe, dir, ups_instances, scanCount, readCount, calls, regop>>

\* A C-CANCEL arrives for the request: event.is_cancelled becomes true.
Cancel(a) ==
    /\ Running(a)
    /\ ~h[a].is_cancelled
    /\ h' = [h EXCEPT ![a].is_cancelled = TRUE, ![a].cancelAt = Len(h[a].out)]
    /\ UNCHANGED <<svc, probe, dir, ups_instances, scanCount, readCount, calls, regop>>

-----------------------------------------------------------------------------
(* Calls of the registry functions from outside the handlers, made while no *)
(* handler exists.                                                         *)

AddUpsInstance(ds) ==
    /\ \A a \in Assocs : h[a].pc = "idle"
    /\ LET r == _add_ups_instance(ups_instances, ds)
       IN  /\ ups_instances' = r.dict
           /\ regop' = RegOp("add", ds, regop.op = "add" /\ regop.ds = ds,
                             ds.SOPInstanceUID \in dict_keys(ups_instances),
                             r.dict # ups_instances, r.exc)
    /\ UNCHANGED <<svc, probe, dir, scanCount, readCount, calls, h>>

RemoveUpsInstance(ds) ==
    /\ \A a \in Assocs : h[a].pc = "idle"
    /\ LET r == _remove_ups_instance(ups_instances, ds)
       IN  /\ ups_instances' = r.dict
           /\ regop' = RegOp("remove", ds, regop.op = "remove" /\ regop.ds = ds,
                             ds.SOPInstanceUID \in dict_keys(ups_instances),
                             r.dict # ups_instances, r.exc)
    /\ UNCHANGED <<svc, probe, dir, scanCount, readCount, calls, h>>

\* The consumer drops a generator that has ended.
Release(a) ==
    /\ h[a].pc \in {"done", "raised"}
    /\ h' = [h EXCEPT ![a] = Idle]
    /\ UNCHANGED <<svc, probe, dir, ups_instances, scanCount, readCount, calls, regop>>

-----------------------------------------------------------------------------
(* handle_get and handle_move: handlers.py lines 241-400 *)

Contexts == {"ctx1", "ctx2"}

\* An Instance row returned by search(): its file, whether dcmread can read
\* the file, and its presentation context.
Match(i, readable, context) ==
    [filename |-> ToString(i), readable |-> readable, context |-> context]

MatchLists ==
    UNION {{[i \in 1..n |-> Match(i, r[i], c[i])] :
               r \in [1..n -> BOOLEAN], c \in [1..n -> Contexts]} : n \in 0..MaxMatches}

\* The configured move destinations: AE title -> (addr, port).
destinations == [ae \in {"STORESCP"} |-> [addr |-> "127.0.0.1", port |-> 11112]]

MoveDestinations == {"STORESCP", "UNKNOWN"}

\* The answers of the catalogue's search(): a list of matches, or one of the
\* two failures handle_get and handle_move tell apart.
SearchOutcomes == {"ok", "InvalidIdentifier", "Exception"}

lookup_destination_default(move_destination) == destinations["STORESCP"]

\* destinations[event.move_destination], lines 347-349: the entry of the
\* table, or the KeyError the handler catches (carried in addr).
lookup_destination(move_destination) ==
    IF move_destination \in DOMAIN destinations
    THEN destinations[move_destination]
    ELSE [addr |-> KeyError, port |-> 0]

\* seq[:n]
slice(seq, n) == SubSeq(seq, 1, IF Len(seq) < n THEN Len(seq) ELSE n)

\* The number of contexts handle_move passes on at most: contexts[:128].
ContextCap == 128

move_contexts_with_duplicates(matches) ==
    {[i \in 1..Len(matches) |-> matches[i].context]}

\* list(set([ii.context for ii in matches])), line 381: the distinct contexts
\* of the matches, in one of the orders the iteration of a set can have.
move_contexts(matches) ==
    LET S == {matches[i].context : i \in 1..Len(matches)}
    IN  {c \in [1..Cardinality(S) -> S] : \A i, j \in 1..Cardinality(S) : c[i] = c[j] => i = j}

\* dcmread(match.filename), for a file that can be read.
dcmread(match) == Ds({KwSOPInstanceUID}, match.filename, <<>>, "")

sub_operations_off_by_one(matches) == Len(matches) + 1

\* yield len(matches): lines 293 and 385.
number_of_sub_operations(matches) == Len(matches)

search_step_without_rollback(hr, outcome, matches, unable_to_process) ==
    IF outcome = "ok"
    THEN [hr EXCEPT !.session = "closed", !.matches = matches, !.searches = @ + 1]
    ELSE [hr EXCEPT !.session = "open", !.pc = "final", !.searches = @ + 1,
                    !.out = Append(@, Rsp(IF outcome = "InvalidIdentifier"
                                          THEN FailureIdentifier
                                          ELSE unable_to_process, None))]

\* Lines 270-290 and 355-375: the search and its except clauses.  The yield of
\* a failure status is inside the try statement, so the session stays open
\* (rolled back) while the generator is suspended there.
search_step(hr, outcome, matches, unable_to_process) ==
    CASE outcome = "InvalidIdentifier" ->
           [hr EXCEPT !.session = "open", !.rolled_back = TRUE, !.pc = "final",
                      !.searches = @ + 1,
                      !.out = Append(@, Rsp(FailureIdentifier, None))]
      [] outcome = "Exception" ->
           [hr EXCEPT !.session = "open", !.rolled_back = TRUE, !.pc = "final",
                      !.searches = @ + 1,
                      !.out = Append(@, Rsp(unable_to_process, None))]
      [] OTHER ->
           [hr EXCEPT !.session = "closed", !.matches = matches, !.searches = @ + 1]

retrieve_loop_emits_after_cancel(hr, read_failure) ==
    [hr EXCEPT !.pc = IF Len(hr.out) >= 4 THEN "done" ELSE "yielded",
               !.out = Append(@, Rsp(Canceled, None))]

retrieve_loop_no_return(hr, read_failure) ==
    IF hr.pc = "failed"
    THEN IF hr.ds = Unbound
         THEN [hr EXCEPT !.pc = "raised", !.exc = UnboundLocalError]
         ELSE [hr EXCEPT !.pc = "yielded", !.out = Append(@, Rsp(PendingMatch, hr.ds))]
    ELSE IF hr.idx >= Len(hr.matches)
    THEN [hr EXCEPT !.pc = "done"]
    ELSE LET match == hr.matches[hr.idx + 1]
         IN  IF hr.is_cancelled
             THEN [hr EXCEPT !.idx = @ + 1, !.sawCancel = Len(hr.out), !.pc = "yielded",
                             !.out = Append(@, Rsp(Canceled, None))]
             ELSE IF match.readable
             THEN [hr EXCEPT !.idx = @ + 1, !.ds = dcmread(match), !.pc = "yielded",
                             !.out = Append(@, Rsp(PendingMatch, dcmread(match)))]
             ELSE [hr EXCEPT !.idx = @ + 1, !.pc = "failed",
                             !.out = Append(@, Rsp(read_failure, None))]

\* Lines 296-308 and 388-400, from one suspension point to the next.  The
\* except clause of the read yields the failure status and does not leave
\* the iteration: resumed there (pc "failed"), the handler goes on to
\* line 308 / 400 and yields ds, which is the dataset of an earlier iteration,
\* or raises UnboundLocalError when no read has succeeded yet.
retrieve_loop(hr, read_failure) ==
    IF hr.pc = "failed"
    THEN IF hr.ds = Unbound
         THEN [hr EXCEPT !.pc = "raised", !.exc = UnboundLocalError]
         ELSE [hr EXCEPT !.pc = "yielded", !.out = Append(@, Rsp(PendingMatch, hr.ds))]
    ELSE IF hr.idx >= Len(hr.matches)
    THEN [hr EXCEPT !.pc = "done"]
    ELSE LET match == hr.matches[hr.idx + 1]
         IN  IF hr.is_cancelled
             THEN [hr EXCEPT !.idx = @ + 1, !.sawCancel = Len(hr.out), !.pc = "final",
                             !.out = Append(@, Rsp(Canceled, None))]
             ELSE IF match.readable
             THEN [hr EXCEPT !.idx = @ + 1, !.ds = dcmread(match), !.pc = "yielded",
                             !.out = Append(@, Rsp(PendingMatch, dcmread(match)))]
             ELSE [hr EXCEPT !.idx = @ + 1, !.pc = "failed",
                             !.out = Append(@, Rsp(read_failure, None))]

\* handle_get is invoked.
GetStart(a, search_outcome) ==
    /\ ~Running(a)
    /\ calls < MaxCalls
    /\ calls' = calls + 1
    /\ h' = [h EXCEPT ![a] = [Idle EXCEPT !.pc = "search", !.op = "get",
                                          !.search_outcome = search_outcome]]
    /\ UNCHANGED <<svc, probe, dir, ups_instances, scanCount, readCount, regop>>

\* handle_move is invoked.
MoveStart(a, move_destination, search_outcome) ==
    /\ ~Running(a)
    /\ calls < MaxCalls
    /\ calls' = calls + 1
    /\ h' = [h EXCEPT ![a] = [Idle EXCEPT !.pc = "search", !.op = "move",
                                          !.move_destination = move_destination,
                                          !.search_outcome = search_outcome]]
    /\ UNCHANGED <<svc, probe, dir, ups_instances, scanCount, readCount, regop>>

\* handle_get up to its first yield: lines 263-293.
GetSearch(a) ==
    /\ h[a].pc = "search"
    /\ h[a].op = "get"
    /\ \E matches \in IF h[a].search_outcome = "ok" THEN MatchLists ELSE {<<>>} :
          LET hr == search_step(h[a], h[a].search_outcome, matches, GetUnableToProcess)
          IN  h' = [h EXCEPT ![a] =
                      IF h[a].search_outcome = "ok"
                      THEN [hr EXCEPT !.pc = "counted",
                              !.out = Append(@, CountRsp(number_of_sub_operations(matches)))]
                      ELSE hr]
    /\ UNCHANGED <<svc, probe, dir, ups_instances, scanCount, readCount, calls, regop>>

\* handle_move up to its first yield: lines 338-382.
MoveSearch(a) ==
    /\ h[a].pc = "search"
    /\ h[a].op = "move"
    /\ LET to == lookup_destination(h[a].move_destination)
       IN  IF to.addr = KeyError
           THEN h' = [h EXCEPT ![a].pc = "final", ![a].out = Append(@, NoRouteRsp)]
           ELSE \E matches \in IF h[a].search_outcome = "ok" THEN MatchLists ELSE {<<>>} :
                \E contexts \in move_contexts(matches) :
                   LET hr == search_step(h[a], h[a].search_outcome, matches,
                                         MoveUnableToProcess)
                   IN  h' = [h EXCEPT ![a] =
                               IF h[a].search_outcome = "ok"
                               THEN [hr EXCEPT !.pc = "dest",
                                       !.out = Append(@, DestRsp(to.addr, to.port,
                                                                 slice(contexts, ContextCap)))]
                               ELSE hr]
    /\ UNCHANGED <<svc, probe, dir, ups_instances, scanCount, readCount, calls, regop>>

\* handle_move from the yield of the destination to the yield of the count:
\* line 385.
MoveCount(a) ==
    /\ h[a].pc = "dest"
    /\ h' = [h EXCEPT ![a].pc = "counted",
                      ![a].out = Append(@, CountRsp(number_of_sub_operations(h[a].matches)))]
    /\ UNCHANGED <<svc, probe, dir, ups_instances, scanCount, readCount, calls, regop>>

\* The consumer asks for the next response of handle_get or handle_move.
RetrieveResume(a) ==
    /\ h[a].pc \in {"counted", "yielded", "failed"}
    /\ h[a].op \in {"get", "move"}
    /\ h' = [h EXCEPT ![a] = retrieve_loop(h[a], IF h[a].op = "get" THEN GetReadFailure
                                                  ELSE MoveReadFailure)]
    /\ UNCHANGED <<svc, probe, dir, ups_instances, scanCount, readCount, calls, regop>>

-----------------------------------------------------------------------------
(* handle_store: handlers.py lines 403-489 *)

StoreUIDs == {"1.2.3.1", "1.2.3.2"}

\* event.dataset of a C-STORE request.  decodable: reading event.dataset
\* does not raise; group2: the dataset carries group 0x0002 elements; body
\* stands for the rest of its content.
StoreEvent(decodable, attrs, uid, body, group2) ==
    [decodable |-> decodable, attrs |-> attrs, SOPInstanceUID |-> uid,
     body |-> body, group2 |-> group2]

StoreEvents ==
    {StoreEvent(TRUE, {KwSOPInstanceUID}, u, b, g) :
        u \in StoreUIDs \cup {""}, b \in {"a", "b"}, g \in BOOLEAN}
    \cup {StoreEvent(TRUE, {}, "", "a", FALSE), StoreEvent(FALSE, {}, "", "", FALSE)}

\* What a file of the storage directory holds.
Absent == [SOPInstanceUID |-> "", body |-> "<absent>", group2 |-> FALSE]
Partial == [SOPInstanceUID |-> "", body |-> "<partial>", group2 |-> FALSE]

\* ds[0x00030000:], line 434: the dataset without its group 0x0002 elements.
strip_group2(ds) == [SOPInstanceUID |-> ds.SOPInstanceUID, body |-> ds.body, group2 |-> FALSE]

\* os.path.join(storage_dir, sop_instance), line 449, relative to storage_dir.
fpath(sop_instance) == sop_instance

\* ds.save_as(fpath), line 455.  "open_fails": the file cannot be opened for
\* writing, as when fpath is the storage directory itself (an empty
\* SOPInstanceUID); "write_fails": the file is opened, and so truncated, and
\* the write raises.
SaveOutcomes == {"ok", "open_fails", "write_fails"}

save_as(storage, ds, path, outcome) ==
    IF path \notin DOMAIN storage \/ outcome = "open_fails" THEN storage
    ELSE IF outcome = "write_fails" THEN [storage EXCEPT ![path] = Partial]
    ELSE [storage EXCEPT ![path] = ds]

save_as_raises(storage, path, outcome) == path \notin DOMAIN storage \/ outcome # "ok"

\* The catalogue's upsert, lines 472-477: the query for the rows of the
\* identifier and add_instance(ds, session, abspath).  "ok": the row of the
\* identifier holds the path; "raise": the session is rolled back.
UpsertOutcomes == {"ok", "raise"}

add_instance(db, ds, path, outcome) ==
    IF outcome = "ok" THEN [db EXCEPT ![ds.SOPInstanceUID] = path] ELSE db

\* The last call of handle_store or handle_naction: its inputs, the storage
\* and the catalogue before it, and what it returned.
\*   session      "none": no session was made; "closed": made and closed
\*   rolled_back  session.rollback() was called
LastCall(op, event, status, response, session, rolled_back, save_outcome, upsert_outcome, storage_before, db_before) ==
    [op |-> op, event |-> event, status |-> status, response |-> response,
     session |-> session, rolled_back |-> rolled_back,
     save_outcome |-> save_outcome, upsert_outcome |-> upsert_outcome,
     storage_before |-> storage_before, db_before |-> db_before]

NoResponse == [kind |-> "none"]

SvcInit ==
    [storage |-> [u \in StoreUIDs |-> Absent],
     db |-> [u \in StoreUIDs |-> ""],
     last |-> LastCall("none", StoreEvent(FALSE, {}, "", "", FALSE), 0 - 1, NoResponse,
                       "none", FALSE, "", "", [u \in StoreUIDs |-> Absent],
                       [u \in StoreUIDs |-> ""])]

store_without_decode_check(s, event, save_outcome, upsert_outcome) ==
    [s EXCEPT !.last = LastCall("store", event, OutOfResources, NoResponse, "none", FALSE,
                                save_outcome, upsert_outcome, s.storage, s.db)]

store_upsert_before_write(s, event, save_outcome, upsert_outcome) ==
    [s EXCEPT !.last = LastCall("store", event,
                                IF KwSOPInstanceUID \in event.attrs
                                THEN OutOfResources ELSE CannotUnderstand,
                                NoResponse, "closed", upsert_outcome = "raise",
                                save_outcome, upsert_outcome, s.storage, s.db)]

store_upsert_decides(s, event, save_outcome, upsert_outcome) ==
    [s EXCEPT !.last = LastCall("store", event,
                                IF upsert_outcome = "ok" THEN Success ELSE OutOfResources,
                                NoResponse, "closed", upsert_outcome = "raise",
                                save_outcome, upsert_outcome, s.storage, s.db)]

\* handle_store, lines 426-489, as one call: the storage, the catalogue and
\* the returned status after it.
handle_store(s, event, save_outcome, upsert_outcome) ==
    IF ~event.decodable \/ KwSOPInstanceUID \notin event.attrs
    THEN \* lines 431-440
         [s EXCEPT !.last = LastCall("store", event, CannotUnderstand, NoResponse, "none",
                                     FALSE, save_outcome, upsert_outcome, s.storage, s.db)]
    ELSE LET ds == strip_group2(event)
             path == fpath(ds.SOPInstanceUID)
             storage == save_as(s.storage, ds, path, save_outcome)
         IN  IF save_as_raises(s.storage, path, save_outcome)
             THEN \* lines 454-460
                  [storage |-> storage, db |-> s.db,
                   last |-> LastCall("store", event, OutOfResources, NoResponse, "none",
                                     FALSE, save_outcome, upsert_outcome, s.storage, s.db)]
             ELSE \* lines 464-489
                  [storage |-> storage,
                   db |-> add_instance(s.db, ds, path, upsert_outcome),
                   last |-> LastCall("store", event, Success, NoResponse, "closed",
                                     upsert_outcome = "raise", save_outcome,
                                     upsert_outcome, s.storage, s.db)]

HandleStore(event, save_outcome, upsert_outcome) ==
    /\ svc' = handle_store(svc, event, save_outcome, upsert_outcome)
    /\ UNCHANGED <<probe, dir, ups_instances, scanCount, readCount, calls, regop, h>>

-----------------------------------------------------------------------------
(* handle_naction: handlers.py lines 562-676 *)

UPSGlobalSubscriptionInstance == "1.2.840.10008.5.1.4.34.5"
UPSFilteredGlobalSubscriptionInstance == "1.2.840.10008.5.1.4.34.5.1"
UPSPushClass == "1.2.840.10008.5.1.4.34.6.1"
UPSWatchClass == "1.2.840.10008.5.1.4.34.6.2"

\* The N-ACTION request primitive and the event's action type and
\* action information.
NActionEvent(class_uid, instance_uid, action_type, action_information) ==
    [RequestedSOPClassUID |-> class_uid, RequestedSOPInstanceUID |-> instance_uid,
     action_type |-> action_type, action_information |-> action_information]

NActionEvents ==
    {NActionEvent(c, i, t, info) :
        c \in {UPSPushClass, UPSWatchClass},
        i \in {UPSGlobalSubscriptionInstance, UPSFilteredGlobalSubscriptionInstance,
               "1.2.3.1", "None"},
        t \in 1..5,
        info \in {"None", "ReceivingAE", "DeletionLock"}}

naction_response_swapped(event) ==
    [kind |-> "naction",
     AffectedSOPClassUID |-> event.RequestedSOPInstanceUID,
     AffectedSOPInstanceUID |-> event.RequestedSOPClassUID,
     RequestedSOPClassUID |-> event.RequestedSOPClassUID,
     RequestedSOPInstanceUID |-> event.RequestedSOPInstanceUID,
     action_type |-> event.action_type,
     action_information |-> "None",
     action_reply |-> event.action_information,
     status |-> Success]

\* The response Dataset of lines 633-650.
naction_response(event) ==
    [kind |-> "naction",
     AffectedSOPClassUID |-> event.RequestedSOPClassUID,
     AffectedSOPInstanceUID |-> event.RequestedSOPInstanceUID,
     RequestedSOPClassUID |-> event.RequestedSOPClassUID,
     RequestedSOPInstanceUID |-> event.RequestedSOPInstanceUID,
     action_type |-> event.action_type,
     action_information |-> "None",
     action_reply |-> "None",
     status |-> Success]

\* handle_naction as one call: return 0x0000, response (line 676).
handle_naction(s, event) ==
    [s EXCEPT !.last = LastCall("naction", event, Success, naction_response(event),
                                "none", FALSE, "", "", s.storage, s.db)]

HandleNAction(event) ==
    /\ svc' = handle_naction(svc, event)
    /\ UNCHANGED <<probe, dir, ups_instances, scanCount, readCount, calls, regop, h>>

-----------------------------------------------------------------------------
(* Specifications *)

NoProbe == [query |-> None, ups |-> None, result |-> ""]

InitCommon ==
    /\ probe = NoProbe
    /\ ups_instances = <<>>
    /\ scanCount = 0
    /\ readCount = 0
    /\ calls = 0
    /\ regop = RegOp("none", None, FALSE, FALSE, FALSE, "")
    /\ h = [a \in Assocs |-> Idle]
    /\ svc = SvcInit

\* The association whose requests arrive one after the other.
Caller == "assoc1"

\* Spec: C-FIND requests served one after the other; nothing else touches
\* the registry.
Init ==
    /\ InitCommon
    /\ dir \in Directories

Next ==
    \/ \E query \in FindQueries : FindStart(Caller, UPSPull, query, "ok")
    \/ \E search_outcome \in SearchOutcomes :
          FindStart(Caller, PatientRootFind, QueryDs(<<"">>, ""), search_outcome)
    \/ ReloadScan(Caller)
    \/ ReloadAdd(Caller)
    \/ FindBranch(Caller)
    \/ FindResume(Caller)
    \/ Return(Caller)
    \/ Cancel(Caller)

Spec == Init /\ [][Next]_vars

\* SpecRegistry: explicit adds and removes between C-FIND requests for every
\* work item.
RegistryFiles ==
    {File(TRUE, ItemDs("1.2.3.1", "SCHEDULED")),
     File(TRUE, ItemDs("1.2.3.1", "COMPLETED")), Unreadable}

InitRegistry ==
    /\ InitCommon
    /\ dir \in UNION {[1..n -> RegistryFiles] : n \in 0..MaxFiles}

NextRegistry ==
    \/ FindStart(Caller, UPSPull, QueryDs(<<"">>, ""), "ok")
    \/ ReloadScan(Caller)
    \/ ReloadAdd(Caller)
    \/ FindBranch(Caller)
    \/ FindResume(Caller)
    \/ Return(Caller)
    \/ Release(Caller)
    \/ \E ds \in RegistryDatasets : AddUpsInstance(ds)
    \/ \E ds \in RegistryDatasets : RemoveUpsInstance(ds)

SpecRegistry == InitRegistry /\ [][NextRegistry]_vars

\* SpecMatcher: direct calls of the matcher on every query and every item.
MatcherQueries ==
    DatasetsOver(SUBSET {KwStationSeq, KwStepState}, {""}, CodeSeqs, StepStates)

MatcherItems ==
    DatasetsOver({{KwSOPInstanceUID} \cup x : x \in SUBSET {KwStationSeq, KwStepState}},
                 {"1.2.3.1"}, CodeSeqs, StepStates)

MatchProbe(query, ups) ==
    /\ probe = NoProbe
    /\ probe' = [query |-> query, ups |-> ups,
                 result |-> _ups_is_match_for_query(query, ups)]
    /\ UNCHANGED <<svc, dir, ups_instances, scanCount, readCount, calls, regop, h>>

InitMatcher ==
    /\ InitCommon
    /\ dir = <<>>

NextMatcher == \E query \in MatcherQueries, ups \in MatcherItems : MatchProbe(query, ups)

SpecMatcher == InitMatcher /\ [][NextMatcher]_vars

\* SpecConcurrent: C-FIND requests for every work item on two associations,
\* each served by its own thread, against a directory of readable files.
ConcurrentDirectories ==
    UNION {[1..n -> {File(TRUE, ItemDs(u, "SCHEDULED")) : u \in UIDs}] : n \in 1..MaxFiles}

InitConcurrent ==
    /\ InitCommon
    /\ dir \in ConcurrentDirectories

NextConcurrent ==
    \E a \in Assocs :
        \/ FindStart(a, UPSPull, QueryDs(<<"">>, ""), "ok")
        \/ ReloadScan(a)
        \/ ReloadAdd(a)
        \/ FindBranch(a)
        \/ FindResume(a)
        \/ Return(a)

SpecConcurrent == InitConcurrent /\ [][NextConcurrent]_vars

\* SpecStore: C-STORE and N-ACTION requests, each served in one call.
InitStore ==
    /\ InitCommon
    /\ dir = <<>>

NextStore ==
    \/ \E event \in StoreEvents, save_outcome \in SaveOutcomes,
          upsert_outcome \in UpsertOutcomes :
          HandleStore(event, save_outcome, upsert_outcome)
    \/ \E event \in NActionEvents : HandleNAction(event)

SpecStore == InitStore /\ [][NextStore]_vars

-----------------------------------------------------------------------------
(* Claims on the matcher *)

HasMatchFields(ds) == {KwStationSeq, KwStepState} \subseteq ds.attrs

\* The machine name a dataset asks for or is scheduled on, as the data model
\* defines it: the code value of the first entry of its sequence, and empty
\* when the sequence has no entry.
MachineNameOf(ds) ==
    IF Len(ds.ScheduledStationNameCodeSequence) = 0 THEN ""
    ELSE ds.ScheduledStationNameCodeSequence[1]

ConstraintsMet(query, ups) ==
    /\ MachineNameOf(query) # "" => MachineNameOf(ups) = MachineNameOf(query)
    /\ query.ProcedureStepState # "" => ups.ProcedureStepState = query.ProcedureStepState

\* C1: for a query and an item that both hold the machine-name sequence and
\* the procedure-step state, the matcher returns true exactly when every
\* non-empty constraint of the query equals the item's field; in particular
\* a query with both constraints empty matches every item.
C1_MatchIffConstraintsMet ==
    (probe # NoProbe /\ HasMatchFields(probe.query) /\ HasMatchFields(probe.ups))
        => (probe.result = "True" <=> ConstraintsMet(probe.query, probe.ups))

-----------------------------------------------------------------------------
(* SpecRetrieve: C-GET and C-MOVE requests served one after the other *)

InitRetrieve ==
    /\ InitCommon
    /\ dir = <<>>

NextRetrieve ==
    \/ \E search_outcome \in SearchOutcomes : GetStart(Caller, search_outcome)
    \/ \E move_destination \in MoveDestinations, search_outcome \in SearchOutcomes :
          MoveStart(Caller, move_destination, search_outcome)
    \/ GetSearch(Caller)
    \/ MoveSearch(Caller)
    \/ MoveCount(Caller)
    \/ RetrieveResume(Caller)
    \/ Return(Caller)
    \/ Cancel(Caller)

SpecRetrieve == InitRetrieve /\ [][NextRetrieve]_vars

-----------------------------------------------------------------------------
(* Claims on handle_find, under Spec *)

\* The stream of a handler has ended: the generator returned or raised.
Ended(a) == h[a].pc \in {"done", "raised"}

IsUpsFind(a) == h[a].op = "find" /\ h[a].model = UPSPull

\* The items of the registry that satisfy the matcher, in iteration order.
RECURSIVE MatchingItems(_, _)
MatchingItems(d, query) ==
    IF d = <<>> THEN <<>>
    ELSE (IF _ups_is_match_for_query(query, Head(d)) = "True" THEN <<Head(d)>> ELSE <<>>)
         \o MatchingItems(Tail(d), query)

\* One PendingMatch per matching item, then one Success.
ExpectedFindStream(d, query) ==
    LET m == MatchingItems(d, query)
    IN  [i \in 1..Len(m) + 1 |->
            IF i <= Len(m) THEN Rsp(PendingMatch, m[i]) ELSE Rsp(Success, None)]

\* Every file of the directory that can be read holds a SOPInstanceUID.
DirectoryWellFormed == \A i \in 1..Len(dir) : dir[i].readable => HasUid(dir[i].ds)

\* C2: a work-item query that is never cancelled emits one (PendingMatch,
\* item) per registry item that satisfies the matcher, in registry order,
\* and then one (Success, None) as its last response.  Stated for the
\* directories whose readable files all hold a SOPInstanceUID.
C2_FindStreamsEveryMatchThenSuccess ==
    \A a \in Assocs :
        (IsUpsFind(a) /\ Ended(a) /\ ~h[a].is_cancelled /\ DirectoryWellFormed)
            => /\ h[a].pc = "done"
               /\ h[a].out = ExpectedFindStream(ups_instances, h[a].query)

\* C3: in a work-item query with two or more matches, a cancellation flag set
\* after the first emission and before the second makes the stream exactly
\* one (PendingMatch, record) followed by one (Canceled, None).
C3_FindCancelBeforeSecondEmission ==
    \A a \in Assocs :
        (/\ IsUpsFind(a) /\ Ended(a)
         /\ Len(MatchingItems(ups_instances, h[a].query)) >= 2
         /\ h[a].cancelAt = 1
         /\ h[a].out[1] = Rsp(PendingMatch, MatchingItems(ups_instances, h[a].query)[1]))
            => h[a].out = <<Rsp(PendingMatch, MatchingItems(ups_instances, h[a].query)[1]),
                            Rsp(Canceled, None)>>

\* C7: two query invocations in sequence against a directory that holds at
\* least one UPS_*.dcm file make exactly one directory scan: the second one
\* neither globs nor reads.
C7_SecondQueryDoesNotScan ==
    (Len(dir) >= 1 /\ calls = 2 /\ h[Caller].pc # "reload")
        => (scanCount = 1 /\ readCount <= Len(dir))

\* C8: in the load of an empty registry a file that fails to deserialize is
\* skipped, and every other file of the directory, also one that comes after
\* it, is deserialized and inserted.
C8_LoadSkipsOnlyTheFailingFile ==
    (calls = 1 /\ h[Caller].pc \in {"yielded", "final", "done"})
        => \A i \in 1..Len(dir) :
              (dir[i].readable /\ HasUid(dir[i].ds))
                  => dir[i].ds.SOPInstanceUID \in dict_keys(ups_instances)

-----------------------------------------------------------------------------
(* Claims on the registry, under SpecRegistry *)

EntriesKeyed(d, uid) == {i \in 1..Len(d) : d[i].SOPInstanceUID = uid}

\* C9: _add_ups_instance(i) called twice in a row leaves, after the second
\* call, the registry of the first call, with exactly one entry keyed by i's
\* identifier; _remove_ups_instance(i) for an identifier that is not a key
\* leaves the registry unchanged and raises nothing.
C9_AddIdempotentRemoveAbsentNoOp ==
    /\ (regop.op = "add" /\ regop.again /\ HasUid(regop.ds))
          => /\ ~regop.changed
             /\ regop.exc = ""
             /\ Cardinality(EntriesKeyed(ups_instances, regop.ds.SOPInstanceUID)) = 1
    /\ (regop.op = "remove" /\ ~regop.present /\ HasUid(regop.ds))
          => (~regop.changed /\ regop.exc = "")

C9_Witness ==
    /\ regop.op = "add" /\ regop.again /\ HasUid(regop.ds)
    /\ Len(ups_instances) = 2

\* C10: the registry holds at most one record per identifier, and an insert
\* (explicit, or made by the load) of a record whose identifier is already a
\* key leaves the registry as it was, whatever the content of the record.
C10_OneRecordPerUidFirstWins ==
    /\ \A i, j \in 1..Len(ups_instances) :
          ups_instances[i].SOPInstanceUID = ups_instances[j].SOPInstanceUID => i = j
    /\ (regop.op \in {"add", "load"} /\ regop.present /\ HasUid(regop.ds))
          => ~regop.changed

C10_Witness ==
    /\ regop.op = "add" /\ regop.present /\ HasUid(regop.ds)
    /\ \E i \in 1..Len(ups_instances) :
          /\ ups_instances[i].SOPInstanceUID = regop.ds.SOPInstanceUID
          /\ ups_instances[i] # regop.ds

-----------------------------------------------------------------------------
(* Claims on handle_get and handle_move, under SpecRetrieve *)

IsRetrieve(a) == h[a].op \in {"get", "move"}

CountIndices(out) == {i \in 1..Len(out) : out[i].kind = "count"}

\* The responses that follow the count.
AfterCount(out) ==
    LET c == CHOOSE i \in CountIndices(out) : TRUE
    IN  SubSeq(out, c + 1, Len(out))

\* C4: in handle_get and handle_move the cancellation flag is sampled when a
\* pass of the loop over the matches starts; once it is seen set, the handler
\* emits one (Canceled, None), nothing after it, and no Canceled before it.
C4_RetrieveCancelObserved ==
    /\ [](\A a \in Assocs :
            (IsRetrieve(a) /\ h[a].sawCancel >= 0)
                => /\ h[a].pc \in {"final", "done"}
                   /\ Len(h[a].out) = h[a].sawCancel + 1
                   /\ h[a].out[Len(h[a].out)] = Rsp(Canceled, None)
                   /\ \A i \in 1..h[a].sawCancel : h[a].out[i].status # Canceled)
    /\ [][\A a \in Assocs :
            (/\ IsRetrieve(a) /\ h[a].pc \in {"counted", "yielded"}
             /\ h[a].idx < Len(h[a].matches) /\ h[a].is_cancelled
             /\ h'[a] # h[a])
                => h'[a].sawCancel = Len(h[a].out)]_vars

C4_Witness ==
    \E a \in Assocs :
        /\ h[a].op = "move" /\ h[a].pc = "done" /\ h[a].sawCancel >= 0
        /\ h[a].idx < Len(h[a].matches)
        /\ \E i \in 1..Len(h[a].out) : h[a].out[i].status = PendingMatch

\* C5: when the search succeeds, the request is never cancelled and every
\* matched record is read, the announced number of sub-operations is the
\* number of record responses that follow it.
C5_CountEqualsRecordsEmitted ==
    \A a \in Assocs :
        (/\ IsRetrieve(a) /\ h[a].pc = "done" /\ ~h[a].is_cancelled
         /\ CountIndices(h[a].out) # {}
         /\ \A i \in 1..Len(h[a].matches) : h[a].matches[i].readable)
            => \A c \in CountIndices(h[a].out) :
                  h[a].out[c].status =
                      Cardinality({j \in c + 1..Len(h[a].out) : h[a].out[j].ds # None})

C5_Witness ==
    \E a \in Assocs :
        /\ IsRetrieve(a) /\ h[a].pc = "done" /\ ~h[a].is_cancelled
        /\ \A i \in 1..Len(h[a].matches) : h[a].matches[i].readable
        /\ \E c \in CountIndices(h[a].out) : h[a].out[c].status >= 2

\* C6: with N matches, no cancellation and exactly one record that fails to
\* read, the stream after the count is N responses: the failure status, with
\* no record, for the failed item and (PendingMatch, record) for each other
\* item; the handler goes through all N items and ends normally.
C6_OneReadFailureOneFailureResponse ==
    \A a \in Assocs :
        (/\ IsRetrieve(a) /\ Ended(a) /\ ~h[a].is_cancelled
         /\ CountIndices(h[a].out) # {}
         /\ Cardinality({i \in 1..Len(h[a].matches) : ~h[a].matches[i].readable}) = 1)
            => /\ h[a].pc = "done"
               /\ AfterCount(h[a].out) =
                     [i \in 1..Len(h[a].matches) |->
                         IF h[a].matches[i].readable
                         THEN Rsp(PendingMatch, dcmread(h[a].matches[i]))
                         ELSE Rsp(IF h[a].op = "get" THEN GetReadFailure
                                  ELSE MoveReadFailure, None)]

-----------------------------------------------------------------------------
(* Claims on handle_move's destination, under SpecRetrieve *)

KnownDestination(a) == h[a].move_destination \in DOMAIN destinations

\* C11: a C-MOVE request that names a destination missing from the
\* destination table has the response stream <<(None, None)>>: nothing is
\* emitted after it, and search() is never called for the request.
C11_UnknownDestinationNoRoute ==
    \A a \in Assocs :
        (h[a].op = "move" /\ ~KnownDestination(a) /\ h[a].pc # "search")
            => /\ h[a].out = <<NoRouteRsp>>
               /\ h[a].searches = 0
               /\ h[a].pc \in {"final", "done"}

C11_Witness ==
    \E a \in Assocs :
        /\ h[a].op = "move" /\ ~KnownDestination(a) /\ h[a].pc = "done"
        /\ calls = MaxCalls

-----------------------------------------------------------------------------
(* Claims on the catalogue search of handle_find, handle_get, handle_move *)

\* The request goes to the catalogue: a C-FIND on a composite-object model,
\* a C-GET, or a C-MOVE with a known destination.
IsCatalogRequest(a) ==
    \/ h[a].op = "find" /\ h[a].model # UPSPull
    \/ h[a].op = "get"
    \/ h[a].op = "move" /\ KnownDestination(a)

UnableToProcess(op) ==
    CASE op = "find" -> FindUnableToProcess
      [] op = "get" -> GetUnableToProcess
      [] OTHER -> MoveUnableToProcess

\* C13: for a C-FIND on a composite-object model, a C-GET and a C-MOVE with
\* a known destination, a search() that fails with InvalidIdentifier makes
\* the stream exactly one (0xA900, None), and a search() that fails with
\* another exception exactly one (0xC320 / 0xC420 / 0xC520, None): no
\* destination, no count, no record.
C13_SearchFailureIsOneFailureResponse ==
    \A a \in Assocs :
        (/\ IsCatalogRequest(a) /\ Ended(a) /\ h[a].search_outcome # "ok"
         /\ DirectoryWellFormed)
            => /\ h[a].pc = "done"
               /\ h[a].out =
                     <<Rsp(IF h[a].search_outcome = "InvalidIdentifier"
                           THEN FailureIdentifier ELSE UnableToProcess(h[a].op), None)>>

\* C17: a C-FIND on a composite-object model calls search() and, when the
\* search succeeds and the request is never cancelled, emits one
\* (PendingMatch, record) per catalogue match and then one (Success, None)
\* as its last response.
C17_CompositeFindStreamsCatalogMatches ==
    \A a \in Assocs :
        (/\ h[a].op = "find" /\ h[a].model # UPSPull /\ Ended(a)
         /\ h[a].search_outcome = "ok" /\ ~h[a].is_cancelled /\ DirectoryWellFormed)
            => /\ h[a].pc = "done"
               /\ h[a].searches = 1
               /\ Len(h[a].out) = Len(h[a].matches) + 1
               /\ h[a].out[Len(h[a].out)] = Rsp(Success, None)
               /\ \A i \in 1..Len(h[a].matches) :
                     h[a].out[i].status = PendingMatch /\ h[a].out[i].ds # None

-----------------------------------------------------------------------------
(* Claims on handle_store, under SpecStore *)

StoreCalled == svc.last.op = "store"

\* The unique identifier was extracted: lines 432-435 raised nothing.
UidExtracted(event) == event.decodable /\ KwSOPInstanceUID \in event.attrs

\* The write of the last store call raised.
WriteFailed ==
    save_as_raises(svc.last.storage_before, fpath(svc.last.event.SOPInstanceUID),
                   svc.last.save_outcome)

\* C14: a store request whose dataset cannot be decoded or holds no
\* SOPInstanceUID returns 0xC210; no file of the storage directory is written
\* and the catalogue is not accessed.
C14_UndecodableStoreCannotUnderstand ==
    (StoreCalled /\ ~UidExtracted(svc.last.event))
        => /\ svc.last.status = CannotUnderstand
           /\ svc.storage = svc.last.storage_before
           /\ svc.db = svc.last.db_before
           /\ svc.last.session = "none"

C14_Witness ==
    /\ StoreCalled
    /\ svc.last.event.decodable /\ KwSOPInstanceUID \notin svc.last.event.attrs
    /\ \E u \in StoreUIDs : svc.storage[u] # Absent /\ svc.db[u] # ""

\* C15: a store request whose file write fails returns 0xA700 and leaves the
\* catalogue as it was: no session is made on that path.
C15_WriteFailureOutOfResources ==
    (StoreCalled /\ UidExtracted(svc.last.event) /\ WriteFailed)
        => /\ svc.last.status = OutOfResources
           /\ svc.db = svc.last.db_before
           /\ svc.last.session = "none"
           /\ ~svc.last.rolled_back

C15_Witness ==
    /\ StoreCalled /\ UidExtracted(svc.last.event) /\ WriteFailed
    /\ svc.last.save_outcome = "write_fails"
    /\ svc.last.upsert_outcome = "ok"
    /\ svc.last.event.SOPInstanceUID \in StoreUIDs
    /\ svc.db[svc.last.event.SOPInstanceUID] = ""

-----------------------------------------------------------------------------
(* Claims on absent and empty query attributes and on the effective machine *)
(* name, under SpecMatcher                                                  *)

\* The machine name a query asks for: none when the sequence is absent or has
\* no entry.
RequestedMachineName(query) ==
    IF KwStationSeq \notin query.attrs THEN "" ELSE MachineNameOf(query)

\* The step state a query asks for: none when the attribute is absent.
RequestedStepState(query) ==
    IF KwStepState \notin query.attrs THEN "" ELSE query.ProcedureStepState

\* An item that holds both fields, with one entry in its sequence.
PlainItem(ups) ==
    HasMatchFields(ups) /\ Len(ups.ScheduledStationNameCodeSequence) = 1

\* C18: for a query whose machine-name sequence is absent or has no entry, or
\* whose procedure-step state is absent or empty, the matcher raises nothing
\* and returns true for every item that satisfies the query's other
\* constraint.  Stated for sequences of at most one entry.
C18_AbsentOrEmptyIsUnconstrained ==
    (/\ probe # NoProbe /\ PlainItem(probe.ups)
     /\ Len(probe.query.ScheduledStationNameCodeSequence) <= 1
     /\ \/ KwStationSeq \notin probe.query.attrs
        \/ Len(probe.query.ScheduledStationNameCodeSequence) = 0
        \/ RequestedStepState(probe.query) = "")
        => /\ probe.result \notin Exceptions
           /\ (/\ RequestedMachineName(probe.query) # ""
                     => MachineNameOf(probe.ups) = RequestedMachineName(probe.query)
               /\ RequestedStepState(probe.query) # ""
                     => probe.ups.ProcedureStepState = RequestedStepState(probe.query))
                 => probe.result = "True"

\* C19: the machine-name rule compares the code value of the first entry of
\* the query's sequence with the code value of the first entry of the item's
\* sequence; later entries are ignored.  Stated for datasets that hold both
\* fields and one entry or more, of which one at least holds two.
C19_FirstEntryIsMachineName ==
    (/\ probe # NoProbe /\ HasMatchFields(probe.query) /\ HasMatchFields(probe.ups)
     /\ Len(probe.query.ScheduledStationNameCodeSequence) >= 1
     /\ Len(probe.ups.ScheduledStationNameCodeSequence) >= 1
     /\ \/ Len(probe.query.ScheduledStationNameCodeSequence) >= 2
        \/ Len(probe.ups.ScheduledStationNameCodeSequence) >= 2)
        => (probe.result = "True" <=> ConstraintsMet(probe.query, probe.ups))

-----------------------------------------------------------------------------
(* Claims on handle_naction, under SpecStore *)

\* C20: handle_naction returns, for every request, one (0x0000, response)
\* whose affected and requested class identifiers are the request's requested
\* class identifier, whose affected and requested instance identifiers are
\* the request's requested instance identifier, whose action type is the
\* request's, and whose action reply is empty.
C20_NActionEchoesRequest ==
    svc.last.op = "naction"
        => LET request == svc.last.event
               response == svc.last.response
           IN  /\ svc.last.status = Success
               /\ response.AffectedSOPClassUID = request.RequestedSOPClassUID
               /\ response.RequestedSOPClassUID = request.RequestedSOPClassUID
               /\ response.AffectedSOPInstanceUID = request.RequestedSOPInstanceUID
               /\ response.RequestedSOPInstanceUID = request.RequestedSOPInstanceUID
               /\ response.action_type = request.action_type
               /\ response.action_reply = "None"

C20_Witness ==
    /\ svc.last.op = "naction"
    /\ svc.last.event.RequestedSOPInstanceUID = UPSFilteredGlobalSubscriptionInstance
    /\ svc.last.event.RequestedSOPClassUID = UPSWatchClass
    /\ svc.last.event.action_type = 3
    /\ svc.last.event.action_information # "None"
    /\ svc.last.response.kind = "naction"

-----------------------------------------------------------------------------
(* Claims on concurrent C-FIND requests, under SpecConcurrent *)

\* The identifiers of the files of the directory that can be loaded.
LoadableUids == {dir[i].ds.SOPInstanceUID : i \in {j \in 1..Len(dir) : dir[j].readable}}

\* C21: when C-FIND handlers of two associations run against an empty
\* registry the load is serialized: the directory is scanned by one of them
\* at most, and no handler streams from a registry that holds only a part of
\* the loadable items of the directory.
C21_LoadIsSerialized ==
    /\ scanCount <= 1
    /\ \A a \in Assocs :
          (IsUpsFind(a) /\ h[a].pc \in {"yielded", "final", "done"})
              => dict_keys(h[a].snapshot) = LoadableUids

\* C23: the work-item stream iterates a snapshot of the registry: also when
\* another association changes the registry while the stream is suspended,
\* the stream ends normally, having emitted the items of the registry as it
\* was when the stream started and then its terminal status.
C23_StreamIteratesSnapshot ==
    \A a \in Assocs :
        (IsUpsFind(a) /\ Ended(a) /\ h[a].ups_instance_list = <<>>)
            => /\ h[a].pc = "done"
               /\ h[a].out = ExpectedFindStream(h[a].snapshot, h[a].query)

-----------------------------------------------------------------------------
(* Claims on the life of the registry *)

\* C22: once the load has populated the registry, its contents change only
\* through explicit adds and removes: no later C-FIND scans the directory
\* again, so no later load puts back an item that was removed.  Stated for
\* the directories whose first file can be read, which the first scan loads.
C22_NoRescanOncePopulated ==
    (Len(dir) >= 1 /\ dir[1].readable)
        => /\ scanCount <= 1
           /\ readCount <= Len(dir)

\* C26: a C-FIND on a composite-object model does not scan the directory and
\* leaves the registry as it was.
C26_CompositeFindDoesNotLoad ==
    \A a \in Assocs :
        (h[a].op = "find" /\ h[a].model # UPSPull /\ calls = 1)
            => /\ scanCount = 0
               /\ readCount = 0
               /\ ups_instances = <<>>

-----------------------------------------------------------------------------
(* Claim on the order of the matcher's rules, under SpecMatcher *)

\* The matcher with its rules in the other order: the procedure-step-state
\* rule first, the machine-name rule second.
ups_is_match_state_rule_first(query, ups) ==
    LET m == procedure_step_state_matches(query, ups)
    IN  IF m # "True" THEN m
        ELSE machine_name_matches(query, ups)

\* C27: for every query and every item the matcher gives the outcome (the
\* same boolean, or the same failure) that it would give with the
\* procedure-step-state rule evaluated before the machine-name rule.
C27_RuleOrderDoesNotMatter ==
    probe # NoProbe
        => probe.result = ups_is_match_state_rule_first(probe.query, probe.ups)

-----------------------------------------------------------------------------
(* Claims on the catalogue session and on terminal responses *)

SearchFailures ==
    {FailureIdentifier, FindUnableToProcess, GetUnableToProcess, MoveUnableToProcess}

\* The response is the failure status of a search() that raised.
IsSearchFailure(rsp) == rsp.kind = "status" /\ rsp.status \in SearchFailures

\* C24: in handle_find, handle_get and handle_move, when search() raises
\* InvalidIdentifier or another exception, session.rollback() has been
\* called when the failure status is emitted.
C24_RollbackBeforeFailureStatus ==
    \A a \in Assocs :
        \A i \in 1..Len(h[a].out) :
            IsSearchFailure(h[a].out[i])
                => /\ h[a].rolled_back
                   /\ h[a].searches = 1
                   /\ h[a].search_outcome # "ok"

C24_Witness ==
    \E a \in Assocs :
        /\ h[a].op = "move" /\ h[a].pc = "final" /\ h[a].rolled_back
        /\ h[a].search_outcome = "Exception"
        /\ h[a].out = <<Rsp(MoveUnableToProcess, None)>>

\* C25: every session that handle_get, handle_move or handle_store makes is
\* closed on every exit path: no session is open when the stream has ended
\* or the status was returned, and after a search error the session is
\* closed as soon as the failure status, the handler's last response, is
\* emitted.
C25_SessionClosedOnEveryExit ==
    /\ \A a \in Assocs :
          /\ Ended(a) => h[a].session # "open"
          /\ (h[a].out # <<>> /\ IsSearchFailure(h[a].out[Len(h[a].out)]))
                => h[a].session = "closed"
    /\ svc.last.op = "store" => svc.last.session # "open"

\* The response ends a stream: Canceled, a failure of the search, the
\* no-route pair, or Success.
IsTerminal(rsp) ==
    \/ rsp.kind = "noroute"
    \/ rsp.kind = "status" /\ rsp.status \in SearchFailures \cup {Canceled, Success}

\* C28: in every response stream of handle_find, handle_get and handle_move
\* a terminal response is the last response: nothing is emitted after
\* Canceled, a failure of the search, (None, None) or Success, and a stream
\* holds one terminal response at most.
C28_TerminalResponseIsLast ==
    \A a \in Assocs :
        \A i \in 1..Len(h[a].out) :
            IsTerminal(h[a].out[i]) => i = Len(h[a].out)

C28_Witness ==
    \E a \in Assocs :
        /\ h[a].op = "get" /\ h[a].pc = "done"
        /\ Len(h[a].out) = 3
        /\ h[a].out[2].status = PendingMatch
        /\ h[a].out[3] = Rsp(Canceled, None)
        /\ Len(h[a].matches) = 3

====
